---- MODULE Spec2Model ----
(***************************************************************************)
(* A model of the VRCParam back end (src-tauri/src): the OSC state bridge  *)
(* of osc.rs (parameter store, listener lifecycle, configuration) and the  *)
(* speech command registry of speech.rs with its persistence, as wired by  *)
(* lib.rs.  Every std::sync::Mutex of OscState is modelled with its owner, *)
(* and every method is cut into steps at the points where it can block     *)
(* (a lock acquisition, a thread join).                                     *)
(***************************************************************************)
EXTENDS Integers, Sequences, FiniteSets, TLC

(***************************************************************************)
(* Threads.  Callers are the threads on which the host invokes the API;    *)
(* workers are the listener threads spawned by start_listener.             *)
(***************************************************************************)
Callers == {1, 2}
MaxWorkers == 2
MaxCalls == 4
Workers == 1..MaxWorkers

Free == <<"free", 0>>
CallerId(t) == <<"caller", t>>
WorkerId(w) == <<"worker", w>>

(***************************************************************************)
(* Values of the model.                                                     *)
(***************************************************************************)
Kinds == {"Float", "Int", "Bool"}

\* Parameter::value is an f32: the model counts it in tenths, so that 0.5,
\* the threshold of a Bool, and the fractions an Int loses can be told apart.
Unit == 10
ParamNames == {"p", "q"}
ParamValues == {0, 1}
NoParam == [kind |-> "none", value |-> 0]

\* OscConfig::default()
DefaultConfig ==
    [target_address |-> "127.0.0.1", target_port |-> 9000,
     listen_address |-> "127.0.0.1", listen_port |-> 9001]

\* The configurations the host hands to update_osc_config: the default and
\* one that differs from it in each single field ("localhost" is no IP
\* literal, port 9000 is the port the peer application listens on).
ConfigInputs ==
    {DefaultConfig,
     [DefaultConfig EXCEPT !.target_address = "10.0.0.5"],
     [DefaultConfig EXCEPT !.target_port = 9002],
     [DefaultConfig EXCEPT !.listen_address = "localhost"],
     [DefaultConfig EXCEPT !.listen_port = 9000],
     [DefaultConfig EXCEPT !.listen_port = 9002]}

\* Ports bound by other processes of the machine.
ExternalPorts == {9000}

ListenAddr(c) == <<c.listen_address, c.listen_port>>

\* SocketAddr::from_str accepts IP literals only.
Parseable(host) == host \in {"127.0.0.1", "10.0.0.5"}

VARIABLES
    parameters,       \* OscState.parameters: name -> Parameter or NoParam
    config,           \* OscState.config
    listener_thread,  \* OscState.listener_thread: 0 (None) or the worker joined by the handle
    running,          \* OscState.running
    app_handle,       \* OscState.app_handle: attached or not
    lk,               \* owner of each mutex of OscState
    poisoned,         \* mutexes poisoned by a panic of their holder
    wk,               \* the listener threads: position, bound socket, datagram in work
    pc,               \* each caller's position
    op,               \* the API call each caller is in
    arg,              \* its argument
    loc,              \* its locals
    ret,              \* what its last call returned
    emitted,          \* the last "parameter-updated" payload handed to the host
    commands,         \* SpeechState.commands: the list of each language (<<>> for no key)
    lang_order,       \* the keys of the commands HashMap, in its iteration order
    speech_handle,    \* app_handle of the SpeechState the commands are invoked on
    wiring,           \* who initializes the SpeechState: run() of lib.rs, or the host in place
    setup_done,       \* the setup hook has run
    file,             \* commands.json
    calls,            \* how many registry commands the host has invoked
    row               \* history: the add_command_mapping calls made in a row with one input

oscVars == <<parameters, config, listener_thread, running, app_handle, lk,
             poisoned, wk, pc, op, arg, loc, ret, emitted>>

regVars == <<commands, lang_order, speech_handle, wiring, setup_done, file, calls, row>>

vars == <<parameters, config, listener_thread, running, app_handle, lk,
          poisoned, wk, pc, op, arg, loc, ret, emitted,
          commands, lang_order, speech_handle, wiring, setup_done, file, calls, row>>

Locks == {"running", "config", "thread", "params", "handle"}

NoArg == [kind |-> "none"]
NoLoc == [handle |-> 0, had |-> FALSE]
NoRet == [op |-> "none", had |-> FALSE, val |-> "none", worker |-> 0]
NoEmit == <<"none">>
NoDatagram == [kind |-> "none"]
NoUpdate == [kind |-> "none", value |-> 0, name |-> ""]

\* A worker: where it is in its loop, the address of its socket, the packet
\* it is processing with the messages still to visit, the last parameter
\* process_osc_packet got from them, and whether any was got.
FreeWorker ==
    [pc |-> "free", addr |-> <<"", 0>>, queue |-> <<>>, updated |-> FALSE,
     dgram |-> NoDatagram, last |-> NoUpdate]

(***************************************************************************)
(* The command registry of speech.rs: values.                               *)
(***************************************************************************)
Languages == {"en", "ja"}

Mapping(ct, pn, v) == [value |-> v, command_text |-> ct, parameter_name |-> pn]

\* What the host hands to add_command and remove_command.
AddInputs ==
    {[lang |-> "en", mapping |-> Mapping("on", "p", 0)],
     [lang |-> "en", mapping |-> Mapping("on", "p", 1)],
     [lang |-> "en", mapping |-> Mapping("on", "q", 1)],
     [lang |-> "en", mapping |-> Mapping("off", "p", 1)],
     [lang |-> "ja", mapping |-> Mapping("on", "p", 1)]}

RemoveInputs ==
    {[command_text |-> a.mapping.command_text, parameter_name |-> a.mapping.parameter_name,
      lang |-> a.lang] : a \in AddInputs}

\* commands.json: absent, a JSON document (the languages in the order they
\* were written, each with its list), or text that does not parse.
Missing == [state |-> "missing", doc |-> <<>>]
Malformed == [state |-> "malformed", doc |-> <<>>]
Document(d) == [state |-> "doc", doc |-> d]

\* What a session may find on disk when it starts.
InitialFiles ==
    {Missing, Malformed,
     Document(<<[lang |-> "en", list |-> <<Mapping("off", "p", 1)>>]>>)}

NoRow == [stage |-> "none"]

\* SpeechState::new()
RegistryNew ==
    /\ commands = [l \in Languages |-> <<>>]
    /\ lang_order = <<>>
    /\ speech_handle = FALSE
    /\ setup_done = FALSE
    /\ calls = 0
    /\ row = NoRow

\* OscState::new()
OscNew ==
    /\ parameters = [n \in ParamNames |-> NoParam]
    /\ config = DefaultConfig
    /\ listener_thread = 0
    /\ running = FALSE
    /\ app_handle = FALSE
    /\ lk = [l \in Locks |-> Free]
    /\ poisoned = [l \in Locks |-> FALSE]
    /\ wk = [w \in Workers |-> FreeWorker]
    /\ pc = [t \in Callers |-> "idle"]
    /\ op = [t \in Callers |-> "none"]
    /\ arg = [t \in Callers |-> NoArg]
    /\ loc = [t \in Callers |-> NoLoc]
    /\ ret = [t \in Callers |-> NoRet]
    /\ emitted = NoEmit

\* run() of lib.rs, lines 17-18, with no commands file yet.
Init ==
    /\ OscNew
    /\ RegistryNew
    /\ wiring = "run"
    /\ file = Missing


(***************************************************************************)
(* Helpers shared by the steps.                                             *)
(***************************************************************************)
Acquire(l, who) == [lk EXCEPT ![l] = who]

\* A call returns v to the host: the caller is idle again.  ret keeps, with
\* the value, the worker the call spawned or joined (0: none) and, for a remove, whether
\* the list held the pair when the call took the lock.
Return(t, v) ==
    /\ pc' = [pc EXCEPT ![t] = "idle"]
    /\ ret' = [ret EXCEPT ![t] = [op |-> op[t], had |-> loc[t].had, val |-> v,
                                  worker |-> loc[t].handle]]
    /\ op' = [op EXCEPT ![t] = "none"]
    /\ arg' = [arg EXCEPT ![t] = NoArg]
    /\ loc' = [loc EXCEPT ![t] = NoLoc]

Goto(t, p) ==
    /\ pc' = [pc EXCEPT ![t] = p]
    /\ UNCHANGED <<ret, op, arg>>

\* The calling thread unwinds: it never returns to the host.
Panic(t) ==
    /\ pc' = [pc EXCEPT ![t] = "panicked"]
    /\ UNCHANGED <<ret, op, arg, loc>>

LiveWorker(w) == wk[w].pc \notin {"free", "exited", "panicked"}

\* params.values().cloned().collect()
Snapshot(params) ==
    {[kind |-> params[n].kind, value |-> params[n].value, name |-> n] :
        n \in {m \in ParamNames : params[m] # NoParam}}

(***************************************************************************)
(* The host invokes an operation of the API on an idle caller thread.      *)
(***************************************************************************)
EntryPoint(o) ==
    CASE o = "start" -> "sl_lock"
      [] o = "stop" -> "st_lock"
      [] o = "restart" -> "st_lock"
      [] o = "update_config" -> "uc_swap"
      [] o = "initialize" -> "in_lock"
      [] o = "update_parameter" -> "up_insert"
      [] o = "set_parameter" -> "sp_lock"
      [] o = "add" -> "add_mut"
      [] o = "remove" -> "rm_mut"
      [] o = "load" -> "ld_read"
      [] o = "roundtrip" -> "rt_encode"
      [] o = "process" -> "ps_get"
      [] o = "set_value" -> "sv_kind"

Invoke(t, o, a) ==
    /\ pc[t] = "idle"
    /\ pc' = [pc EXCEPT ![t] = EntryPoint(o)]
    /\ op' = [op EXCEPT ![t] = o]
    /\ arg' = [arg EXCEPT ![t] = a]
    /\ ret' = [ret EXCEPT ![t] = NoRet]
    /\ UNCHANGED <<parameters, config, listener_thread, running, app_handle,
                   lk, poisoned, wk, loc, emitted>>
    /\ UNCHANGED regVars

CallStart(t) == Invoke(t, "start", NoArg)
CallStop(t) == Invoke(t, "stop", NoArg)
CallRestart(t) == Invoke(t, "restart", NoArg)
CallUpdateConfig(t) ==
    \E c \in ConfigInputs : Invoke(t, "update_config", [kind |-> "config", config |-> c])

(***************************************************************************)
(* OscState::start_listener                                                 *)
(***************************************************************************)
\* osc.rs 141-144: take the running lock; already running is Ok.  The guard
\* lives to the end of the function.
StartIgnoresRunning(r) == FALSE

AlreadyRunning(r) == r

StartLock(t) ==
    /\ pc[t] = "sl_lock"
    /\ lk["running"] = Free
    /\ IF AlreadyRunning(running)
       THEN /\ Return(t, "Ok")
            /\ UNCHANGED lk
       ELSE /\ lk' = Acquire("running", CallerId(t))
            /\ Goto(t, "sl_bind")
            /\ UNCHANGED loc
    /\ UNCHANGED <<parameters, config, listener_thread, running, app_handle,
                   poisoned, wk, emitted>>
    /\ UNCHANGED regVars

\* UdpSocket::bind: the address is an IP literal and no other socket holds it.
Bindable(c) ==
    /\ Parseable(c.listen_address)
    /\ c.listen_port \notin ExternalPorts
    /\ \A w \in Workers : LiveWorker(w) => wk[w].addr # ListenAddr(c)

SpawnWorker(c) ==
    [pc |-> "check", addr |-> ListenAddr(c), queue |-> <<>>, updated |-> FALSE,
     dgram |-> NoDatagram, last |-> NoUpdate]

\* The flag set before the bind, and left set by the early return.
BindFailedAfterFlagSet(t) ==
    /\ lk' = Acquire("running", Free)
    /\ Return(t, "Err")
    /\ running' = TRUE
    /\ UNCHANGED wk

\* osc.rs 148-150: `?` returns the error; the running guard is dropped with
\* the flag still false and nothing spawned.
BindFailed(t) ==
    /\ lk' = Acquire("running", Free)
    /\ Return(t, "Err")
    /\ UNCHANGED <<running, wk>>

\* osc.rs 146-198: clone the config, parse and bind the address (an error
\* leaves through `?`, dropping the running guard), set running, spawn.
StartBind(t) ==
    /\ pc[t] = "sl_bind"
    /\ lk["config"] = Free
    /\ IF Bindable(config)
       THEN \E w \in Workers :
              /\ wk[w].pc = "free"
              /\ \A v \in Workers : v < w => wk[v].pc # "free"
              /\ running' = TRUE
              /\ wk' = [wk EXCEPT ![w] = SpawnWorker(config)]
              /\ loc' = [loc EXCEPT ![t] = [NoLoc EXCEPT !.handle = w]]
              /\ Goto(t, "sl_store")
              /\ UNCHANGED lk
       ELSE BindFailed(t)
    /\ UNCHANGED <<parameters, config, listener_thread, app_handle, poisoned, emitted>>
    /\ UNCHANGED regVars

\* osc.rs 200-203: store the join handle, return Ok, drop the running guard.
StartStore(t) ==
    /\ pc[t] = "sl_store"
    /\ lk["thread"] = Free
    /\ listener_thread' = loc[t].handle
    /\ lk' = Acquire("running", Free)
    /\ Return(t, "Ok")
    /\ UNCHANGED <<parameters, config, running, app_handle, poisoned, wk, emitted>>
    /\ UNCHANGED regVars

(***************************************************************************)
(* OscState::stop_listener                                                  *)
(***************************************************************************)
\* stop_listener returned Ok: to the host, or to the restart sequence of
\* restart_osc_listener / update_config, which goes on with start_listener.
StopReturns(t) ==
    IF op[t] = "stop"
    THEN Return(t, "Ok")
    ELSE /\ Goto(t, "sl_lock")
         /\ loc' = [loc EXCEPT ![t] = NoLoc]

\* The locks a stop_listener call holds on to while it joins the worker
\* (osc.rs 208: the running guard lives to the end of the function; 217: the
\* guard of listener_thread is a temporary of the `if let`).
HeldWhileJoining == {"running", "thread"}

\* osc.rs 208-214: take the running lock; not running is Ok; clear the flag.
StopLock(t) ==
    /\ pc[t] = "st_lock"
    /\ lk["running"] = Free
    /\ IF ~running
       THEN /\ StopReturns(t)
            /\ UNCHANGED <<lk, running>>
       ELSE /\ running' = FALSE
            /\ lk' = IF "running" \in HeldWhileJoining
                     THEN Acquire("running", CallerId(t)) ELSE lk
            /\ Goto(t, "st_take")
            /\ UNCHANGED loc
    /\ UNCHANGED <<parameters, config, listener_thread, app_handle, poisoned, wk, emitted>>
    /\ UNCHANGED regVars

\* osc.rs 217: listener_thread.lock().take()
StopTake(t) ==
    /\ pc[t] = "st_take"
    /\ lk["thread"] = Free
    /\ IF listener_thread = 0
       THEN /\ lk' = [lk EXCEPT !["running"] =
                        IF @ = CallerId(t) THEN Free ELSE @]
            /\ StopReturns(t)
            /\ UNCHANGED listener_thread
       ELSE /\ loc' = [loc EXCEPT ![t] = [NoLoc EXCEPT !.handle = listener_thread]]
            /\ listener_thread' = 0
            /\ lk' = IF "thread" \in HeldWhileJoining
                     THEN Acquire("thread", CallerId(t)) ELSE lk
            /\ Goto(t, "st_join")
    /\ UNCHANGED <<parameters, config, running, app_handle, poisoned, wk, emitted>>
    /\ UNCHANGED regVars

\* osc.rs 219-224: handle.join() returns once the worker thread has ended
\* (a panicked worker is an Err, logged); then both guards are dropped.
StopJoin(t) ==
    /\ pc[t] = "st_join"
    /\ wk[loc[t].handle].pc \in {"exited", "panicked"}
    /\ wk' = [wk EXCEPT ![loc[t].handle] = FreeWorker]
    /\ lk' = [l \in Locks |-> IF lk[l] = CallerId(t) THEN Free ELSE lk[l]]
    /\ StopReturns(t)
    /\ UNCHANGED <<parameters, config, listener_thread, running, app_handle,
                   poisoned, emitted>>
    /\ UNCHANGED regVars

(***************************************************************************)
(* The worker thread (osc.rs 161-198).                                      *)
(***************************************************************************)
\* osc.rs 164: while *running_ref.lock().unwrap()
WCheck(w) ==
    /\ wk[w].pc = "check"
    /\ lk["running"] = Free
    /\ wk' = [wk EXCEPT ![w].pc = IF running THEN "recv" ELSE "exited"]
    /\ UNCHANGED <<parameters, config, listener_thread, running, app_handle,
                   lk, poisoned, pc, op, arg, loc, ret, emitted>>
    /\ UNCHANGED regVars

\* osc.rs 189-195: nothing to read (or a socket error): sleep, poll again.
WIdle(w) ==
    /\ wk[w].pc = "recv"
    /\ wk' = [wk EXCEPT ![w].pc = "check"]
    /\ UNCHANGED <<parameters, config, listener_thread, running, app_handle,
                   lk, poisoned, pc, op, arg, loc, ret, emitted>>
    /\ UNCHANGED regVars

(***************************************************************************)
(* Inbound datagrams, as rosc decodes them: a message (an address and its  *)
(* typed arguments) or a bundle of packets.                                 *)
(***************************************************************************)
Message(prefixed, n, args) ==
    [kind |-> "message", name |-> n, prefixed |-> prefixed, args |-> args]
Bundle(content) == [kind |-> "bundle", content |-> content]
OscArg(ty, v) == [v |-> v, type |-> ty]

\* What the peer sends while the lifecycle is explored: a parameter message
\* and a message for another address.
LifecycleDatagrams ==
    {Message(TRUE, "p", <<OscArg("Float", 1)>>),
     Message(FALSE, "p", <<OscArg("Float", 1)>>)}

\* The messages of the bundle itself only, the bundles nested in it left out.
FlattenShallow(packet) ==
    IF packet.kind = "message"
    THEN <<packet>>
    ELSE SelectSeq(packet.content, LAMBDA q : q.kind = "message")

\* process_osc_packet visits the messages of a packet depth first, in order.
RECURSIVE Flatten(_)
Flatten(packet) ==
    IF packet.kind = "message"
    THEN <<packet>>
    ELSE LET RECURSIVE Cat(_)
             Cat(ps) == IF ps = <<>> THEN <<>>
                        ELSE Flatten(Head(ps)) \o Cat(Tail(ps))
         IN Cat(packet.content)

\* The address test left out: any message with a supported first argument.
MessageParamAnyAddress(msg) ==
    IF msg.args # <<>> /\ msg.args[1].type \in Kinds
    THEN [kind |-> msg.args[1].type,
          value |-> (CASE msg.args[1].type = "Float" -> msg.args[1].v
                       [] msg.args[1].type = "Int" -> msg.args[1].v * Unit
                       [] msg.args[1].type = "Bool" -> IF msg.args[1].v THEN Unit ELSE 0),
          name |-> msg.name]
    ELSE NoUpdate

\* process_osc_message: the parameter of an avatar-parameter message whose
\* first argument is a float, an int or a bool; NoUpdate otherwise.
MessageParam(msg) ==
    IF msg.prefixed /\ msg.args # <<>>
    THEN LET a == msg.args[1] IN
         CASE a.type = "Float" -> [kind |-> "Float", value |-> a.v, name |-> msg.name]
           [] a.type = "Int" -> [kind |-> "Int", value |-> a.v * Unit, name |-> msg.name]
           [] a.type = "Bool" ->
                [kind |-> "Bool", value |-> IF a.v THEN Unit ELSE 0, name |-> msg.name]
           [] OTHER -> NoUpdate
    ELSE NoUpdate

(***************************************************************************)
(* The wire: send_parameter builds the address from the prefix and the     *)
(* name and one argument from the kind; the listener takes the name back   *)
(* out of the address.  An address is the sequence of its pieces, Prefix   *)
(* standing for the text "/avatar/parameters/"; a name is a sequence of    *)
(* pieces too.  rosc's encoder and decoder carry a message unchanged.      *)
(***************************************************************************)
Prefix == "/avatar/parameters/"

\* osc.rs 249: msg.addr.starts_with(prefix)
StartsWith(addr) == Len(addr) >= 1 /\ addr[1] = Prefix

\* osc.rs 250: str::trim_start_matches removes the prefix as often as the
\* text starts with it.
RECURSIVE TrimStartMatches(_)
TrimStartMatches(addr) ==
    IF StartsWith(addr) THEN TrimStartMatches(Tail(addr)) ELSE addr

\* osc.rs 289: `value as i32` drops the fraction (values beyond the i32
\* range, which the model does not draw, saturate).
AsI32(v) == IF v >= 0 THEN v \div Unit ELSE -((-v) \div Unit)

\* osc.rs 287-291
WireArg(kind, v) ==
    CASE kind = "Float" -> OscArg("Float", v)
      [] kind = "Int" -> OscArg("Int", AsI32(v))
      [] kind = "Bool" -> OscArg("Bool", v > Unit \div 2)

\* osc.rs 285-298: the packet send_parameter encodes
Encode(name, v, kind) == [addr |-> <<Prefix>> \o name, args |-> <<WireArg(kind, v)>>]

\* osc.rs 249-250: the message as process_osc_message reads its address
ParseAddress(packet) ==
    Message(StartsWith(packet.addr), TrimStartMatches(packet.addr), packet.args)

\* osc.rs 247-280 on a packet off the wire
Decode(packet) == MessageParam(ParseAddress(packet))

\* params.insert(param.name.clone(), param)
Insert(params, param) ==
    [params EXCEPT ![param.name] = [kind |-> param.kind, value |-> param.value]]

WorkerPanics(w) == wk' = [wk EXCEPT ![w].pc = "panicked", ![w].queue = <<>>]

\* osc.rs 166-167: a datagram arrived and decoded.
WReceive(w, datagrams) ==
    /\ wk[w].pc = "recv"
    /\ \E d \in datagrams :
         wk' = [wk EXCEPT ![w].pc = "process", ![w].queue = Flatten(d),
                          ![w].updated = FALSE, ![w].dgram = d,
                          ![w].last = NoUpdate]
    /\ UNCHANGED <<parameters, config, listener_thread, running, app_handle,
                   lk, poisoned, pc, op, arg, loc, ret, emitted>>
    /\ UNCHANGED regVars

\* osc.rs 229-280: the next message of the datagram; a parameter message
\* is inserted under the parameters lock.
WProcess(w) ==
    /\ wk[w].pc = "process"
    /\ wk[w].queue # <<>>
    /\ LET param == MessageParam(Head(wk[w].queue)) IN
       IF param = NoUpdate
       THEN /\ wk' = [wk EXCEPT ![w].queue = Tail(@)]
            /\ UNCHANGED parameters
       ELSE /\ lk["params"] = Free
            /\ IF poisoned["params"]
               THEN /\ WorkerPanics(w)
                    /\ UNCHANGED parameters
               ELSE /\ parameters' = Insert(parameters, param)
                    /\ wk' = [wk EXCEPT ![w].queue = Tail(@), ![w].updated = TRUE,
                                        ![w].last = param]
    /\ UNCHANGED <<config, listener_thread, running, app_handle,
                   lk, poisoned, pc, op, arg, loc, ret, emitted>>
    /\ UNCHANGED regVars

\* osc.rs 171-176: the packet is done; on an update take the app_handle lock
\* (its guard lives through the `if let` body).
WNotify(w) ==
    /\ wk[w].pc = "process"
    /\ wk[w].queue = <<>>
    /\ IF ~wk[w].updated
       THEN /\ wk' = [wk EXCEPT ![w].pc = "check", ![w].dgram = NoDatagram,
                                ![w].last = NoUpdate]
            /\ UNCHANGED lk
       ELSE /\ lk["handle"] = Free
            /\ IF poisoned["handle"]
               THEN /\ WorkerPanics(w)
                    /\ UNCHANGED lk
               ELSE IF app_handle
                    THEN /\ lk' = Acquire("handle", WorkerId(w))
                         /\ wk' = [wk EXCEPT ![w].pc = "snapshot"]
                    ELSE /\ wk' = [wk EXCEPT ![w].pc = "check", ![w].dgram = NoDatagram,
                                             ![w].last = NoUpdate]
                         /\ UNCHANGED lk
    /\ UNCHANGED <<parameters, config, listener_thread, running, app_handle,
                   poisoned, pc, op, arg, loc, ret, emitted>>
    /\ UNCHANGED regVars

\* osc.rs 177-184: copy the parameters under their lock, emit, drop the
\* app_handle guard.
WSnapshot(w) ==
    /\ wk[w].pc = "snapshot"
    /\ lk["params"] = Free
    /\ IF poisoned["params"]
       THEN /\ WorkerPanics(w)
            /\ poisoned' = [poisoned EXCEPT !["handle"] = TRUE]
            /\ UNCHANGED emitted
       ELSE /\ emitted' = Snapshot(parameters)
            /\ wk' = [wk EXCEPT ![w].pc = "check", ![w].updated = FALSE,
                                ![w].dgram = NoDatagram, ![w].last = NoUpdate]
            /\ UNCHANGED poisoned
    /\ lk' = Acquire("handle", Free)
    /\ UNCHANGED <<parameters, config, listener_thread, running, app_handle,
                   pc, op, arg, loc, ret>>
    /\ UNCHANGED regVars

(***************************************************************************)
(* OscState::update_config                                                  *)
(***************************************************************************)
\* osc.rs 112-115
ConfigChanged(old, new) ==
    \/ old.target_address # new.target_address
    \/ old.target_port # new.target_port
    \/ old.listen_address # new.listen_address
    \/ old.listen_port # new.listen_port

\* osc.rs 109-122: compare and replace under the config lock.
UcSwap(t) ==
    /\ pc[t] = "uc_swap"
    /\ lk["config"] = Free
    /\ config' = arg[t].config
    /\ IF ConfigChanged(config, arg[t].config)
       THEN /\ Goto(t, "uc_check")
            /\ UNCHANGED loc
       ELSE Return(t, "Ok")
    /\ UNCHANGED <<parameters, listener_thread, running, app_handle, lk,
                   poisoned, wk, emitted>>
    /\ UNCHANGED regVars

\* osc.rs 125-128: read the running flag (the guard is a temporary of the
\* condition), then stop and start.
UcCheck(t) ==
    /\ pc[t] = "uc_check"
    /\ lk["running"] = Free
    /\ IF running
       THEN /\ Goto(t, "st_lock")
            /\ UNCHANGED loc
       ELSE Return(t, "Ok")
    /\ UNCHANGED <<parameters, config, listener_thread, running, app_handle,
                   lk, poisoned, wk, emitted>>
    /\ UNCHANGED regVars

(***************************************************************************)
(* The parameter store: initialize, update_parameter, set_parameter.        *)
(***************************************************************************)
CallInitialize(t) == Invoke(t, "initialize", NoArg)
CallUpdateParameter(t, params) ==
    \E param \in params :
        Invoke(t, "update_parameter", [kind |-> "param", param |-> param])
CallSetParameter(t) ==
    \E n \in ParamNames, v \in ParamValues :
        Invoke(t, "set_parameter", [kind |-> "set", value |-> v, name |-> n])

\* The parameter the host upserts while the lifecycle is explored.
LifecycleParams == {[kind |-> "Int", value |-> 0, name |-> "p"]}

\* osc.rs 72-75
Initialize(t) ==
    /\ pc[t] = "in_lock"
    /\ lk["handle"] = Free
    /\ IF poisoned["handle"]
       THEN /\ Panic(t)
            /\ UNCHANGED app_handle
       ELSE /\ app_handle' = TRUE
            /\ Return(t, "Ok")
    /\ UNCHANGED <<parameters, config, listener_thread, running, lk,
                   poisoned, wk, emitted>>
    /\ UNCHANGED regVars

\* get_mut replaced by an entry that is created when the name is missing.
SetParameterCreates(t) ==
    /\ pc[t] = "sp_lock"
    /\ lk["params"] = Free
    /\ IF poisoned["params"]
       THEN /\ Panic(t)
            /\ UNCHANGED parameters
       ELSE /\ parameters' = [parameters EXCEPT ![arg[t].name] =
                                [kind |-> IF @ = NoParam THEN "Float" ELSE @.kind,
                                 value |-> arg[t].value]]
            /\ Return(t, "Ok")
    /\ UNCHANGED <<config, listener_thread, running, app_handle, lk,
                   poisoned, wk, emitted>>
    /\ UNCHANGED regVars

\* osc.rs 84-93
SetParameter(t) ==
    /\ pc[t] = "sp_lock"
    /\ lk["params"] = Free
    /\ IF poisoned["params"]
       THEN /\ Panic(t)
            /\ UNCHANGED parameters
       ELSE IF parameters[arg[t].name] # NoParam
            THEN /\ parameters' = [parameters EXCEPT ![arg[t].name].value = arg[t].value]
                 /\ Return(t, "Ok")
            ELSE /\ Return(t, "NotFound")
                 /\ UNCHANGED parameters
    /\ UNCHANGED <<config, listener_thread, running, app_handle, lk,
                   poisoned, wk, emitted>>
    /\ UNCHANGED regVars

\* osc.rs 97-98: insert under the parameters lock; the guard lives to the
\* end of the function.
UpInsert(t) ==
    /\ pc[t] = "up_insert"
    /\ lk["params"] = Free
    /\ IF poisoned["params"]
       THEN /\ Panic(t)
            /\ UNCHANGED <<parameters, lk>>
       ELSE /\ parameters' = Insert(parameters, arg[t].param)
            /\ lk' = Acquire("params", CallerId(t))
            /\ Goto(t, "up_handle")
            /\ UNCHANGED loc
    /\ UNCHANGED <<config, listener_thread, running, app_handle,
                   poisoned, wk, emitted>>
    /\ UNCHANGED regVars

\* osc.rs 101: take the app_handle lock; with no handle attached the
\* function ends and both guards are dropped.
UpHandle(t) ==
    /\ pc[t] = "up_handle"
    /\ lk["handle"] = Free
    /\ IF poisoned["handle"]
       THEN /\ Panic(t)
            /\ lk' = Acquire("params", Free)
            /\ poisoned' = [poisoned EXCEPT !["params"] = TRUE]
       ELSE /\ UNCHANGED poisoned
            /\ IF app_handle
               THEN /\ lk' = Acquire("handle", CallerId(t))
                    /\ Goto(t, "up_snapshot")
                    /\ UNCHANGED loc
               ELSE /\ lk' = Acquire("params", Free)
                    /\ Return(t, "Ok")
    /\ UNCHANGED <<parameters, config, listener_thread, running, app_handle,
                   wk, emitted>>
    /\ UNCHANGED regVars

\* osc.rs 103: self.get_parameters() locks the parameters mutex, which this
\* thread holds since line 97.  std::sync::Mutex::lock on a mutex held by the
\* calling thread never returns: it blocks for ever or it panics, and the
\* unwinding then poisons and releases both guards.  No event is emitted.
UpRelockBlocks(t) ==
    /\ pc[t] = "up_snapshot"
    /\ lk["params"] = CallerId(t)
    /\ Goto(t, "up_deadlock")
    /\ UNCHANGED <<parameters, config, listener_thread, running, app_handle,
                   lk, poisoned, wk, loc, emitted>>
    /\ UNCHANGED regVars

UpRelockPanics(t) ==
    /\ pc[t] = "up_snapshot"
    /\ lk["params"] = CallerId(t)
    /\ Panic(t)
    /\ poisoned' = [poisoned EXCEPT !["params"] = TRUE, !["handle"] = TRUE]
    /\ lk' = [l \in Locks |-> IF lk[l] = CallerId(t) THEN Free ELSE lk[l]]
    /\ UNCHANGED <<parameters, config, listener_thread, running, app_handle,
                   wk, emitted>>
    /\ UNCHANGED regVars

(***************************************************************************)
(* The command registry (speech.rs).  The registry mutex is held within a  *)
(* step only: add and remove release it before save_commands takes it      *)
(* again, and save_commands serializes and writes under it.                 *)
(***************************************************************************)
Keys(order) == {order[i] : i \in 1..Len(order)}

\* The orders in which a HashMap may iterate the keys S.
Orders(S) ==
    {o \in [1..Cardinality(S) -> S] : \A x \in S : \E i \in 1..Cardinality(S) : o[i] = x}

\* speech.rs 99 / 123: the pair that identifies a mapping
KeyMatches(cmd, ct, pn) == cmd.command_text = ct /\ cmd.parameter_name = pn

HasPair(list, ct, pn) == \E i \in 1..Len(list) : KeyMatches(list[i], ct, pn)

\* position(..) comparing the whole mapping, its value included.
PositionOfEqual(list, m) ==
    IF \E i \in 1..Len(list) : list[i] = m
    THEN CHOOSE i \in 1..Len(list) : list[i] = m /\ \A j \in 1..(i - 1) : list[j] # m
    ELSE 0

\* speech.rs 98-100: iter().position(..), 0 for None
Position(list, m) ==
    IF HasPair(list, m.command_text, m.parameter_name)
    THEN CHOOSE i \in 1..Len(list) :
           /\ KeyMatches(list[i], m.command_text, m.parameter_name)
           /\ \A j \in 1..(i - 1) : ~KeyMatches(list[j], m.command_text, m.parameter_name)
    ELSE 0

\* The existing-entry branch lost: every mapping is pushed.
AddAlwaysPushes(list, m) == Append(list, m)

\* The existing entry kept as it is instead of being replaced.
AddKeepsExisting(list, m) ==
    IF Position(list, m) # 0 THEN list ELSE Append(list, m)

\* speech.rs 102-108: replace in place or push
AddMapping(list, m) ==
    IF Position(list, m) # 0
    THEN [list EXCEPT ![Position(list, m)] = m]
    ELSE Append(list, m)

\* retain(..) matching on the command text alone.
RemoveByTextOnly(list, ct, pn) ==
    SelectSeq(list, LAMBDA cmd : cmd.command_text # ct)

\* speech.rs 123: retain the mappings that do not match
RemoveMapping(list, ct, pn) ==
    SelectSeq(list, LAMBDA cmd : ~KeyMatches(cmd, ct, pn))

\* serde_json::to_string_pretty of the map: its entries in iteration order.
Serialize(cmds, order) ==
    [i \in 1..Len(order) |-> [lang |-> order[i], list |-> cmds[order[i]]]]

\* serde_json::from_str: the map a document denotes.
Deserialize(doc) ==
    [l \in Languages |->
        IF \E i \in 1..Len(doc) : doc[i].lang = l
        THEN doc[CHOOSE i \in 1..Len(doc) : doc[i].lang = l].list
        ELSE <<>>]

DocKeys(doc) == {doc[i].lang : i \in 1..Len(doc)}

\* The document on disk denotes the registry in memory.
Persisted ==
    /\ file.state = "doc"
    /\ DocKeys(file.doc) = Keys(lang_order)
    /\ Deserialize(file.doc) = commands

\* lib.rs 24-33: the setup hook clones the managed SpeechState and calls
\* initialize on the clone: the clone gets the app handle and loads
\* commands.json into the map it shares with the managed state, whose own
\* app_handle stays None.  A host that initializes the state in place
\* (speech.rs 42-45) sets the handle of the state it goes on to use.
\* load_commands (speech.rs 73-91): a missing file is Ok and loads nothing,
\* text that does not parse is an error (logged by the hook), a document
\* replaces the map.
HandleAfterSetup(w) == w = "direct"

SetupHook ==
    /\ ~setup_done
    /\ setup_done' = TRUE
    /\ speech_handle' = HandleAfterSetup(wiring)
    /\ IF file.state = "doc"
       THEN /\ commands' = Deserialize(file.doc)
            /\ lang_order' \in Orders(DocKeys(file.doc))
       ELSE UNCHANGED <<commands, lang_order>>
    /\ UNCHANGED <<wiring, file, calls, row>>
    /\ UNCHANGED oscVars

\* The host invokes add_command / remove_command (speech.rs 180-204), at
\* most MaxCalls times in a session.
InvokeRegistry(t, o, a) ==
    /\ setup_done
    /\ calls < MaxCalls
    /\ pc[t] = "idle"
    /\ pc' = [pc EXCEPT ![t] = EntryPoint(o)]
    /\ op' = [op EXCEPT ![t] = o]
    /\ arg' = [arg EXCEPT ![t] = a]
    /\ ret' = [ret EXCEPT ![t] = NoRet]
    /\ calls' = calls + 1
    /\ UNCHANGED <<commands, lang_order, speech_handle, wiring, setup_done, file, row, loc>>
    /\ UNCHANGED <<parameters, config, listener_thread, running, app_handle,
                   lk, poisoned, wk, emitted>>

CallAdd(t) ==
    \E a \in AddInputs : InvokeRegistry(t, "add", [kind |-> "add", input |-> a])

CallRemove(t) ==
    \E r \in RemoveInputs : InvokeRegistry(t, "remove", [kind |-> "remove", input |-> r])

\* History of the adds made in a row with one input: the first call has
\* mutated ("first"), has returned from saving ("saved", with the registry it
\* left and, when it wrote the file, the document), the next call with the
\* same input has mutated ("again") and returned ("saved_again"; wrote tells
\* that both calls wrote the file).  Any other step of the registry clears it.
RowAfterAdd(a, cmds, order) ==
    IF row.stage \in {"saved", "saved_again"} /\ row.input = a
    THEN [row EXCEPT !.stage = "again"]
    ELSE [commands |-> cmds, doc |-> <<>>, stage |-> "first", order |-> order,
          input |-> a, wrote |-> FALSE]

RowAfterSave(a, wrote, doc) ==
    IF row.stage = "first" /\ row.input = a
    THEN [row EXCEPT !.stage = "saved", !.wrote = wrote, !.doc = doc]
    ELSE IF row.stage = "again" /\ row.input = a
         THEN [row EXCEPT !.stage = "saved_again", !.wrote = row.wrote /\ wrote]
         ELSE NoRow

\* The history after a save of caller t that wrote nothing it can vouch for.
RowAfterFailedSave(t) ==
    IF pc[t] = "add_save" THEN RowAfterSave(arg[t].input, FALSE, <<>>) ELSE NoRow

\* speech.rs 93-111: under the lock, find or create the list of the
\* language, replace or push; the lock is released before saving.
AddMut(t) ==
    /\ pc[t] = "add_mut"
    /\ LET l == arg[t].input.lang
           m == arg[t].input.mapping
       IN /\ commands' = [commands EXCEPT ![l] = AddMapping(@, m)]
          /\ IF l \in Keys(lang_order)
             THEN lang_order' = lang_order
             ELSE lang_order' \in Orders(Keys(lang_order) \cup {l})
          /\ row' = RowAfterAdd(arg[t].input, commands', lang_order')
    /\ Goto(t, "add_save")
    /\ UNCHANGED <<loc, speech_handle, wiring, setup_done, file, calls>>
    /\ UNCHANGED <<parameters, config, listener_thread, running, app_handle,
                   lk, poisoned, wk, emitted>>

\* speech.rs 117-134: under the lock, retain the other mappings of the
\* language; Ok(false) when nothing was removed, else on to saving.
RmMut(t) ==
    /\ pc[t] = "rm_mut"
    /\ LET l == arg[t].input.lang
           ct == arg[t].input.command_text
           pn == arg[t].input.parameter_name
           kept == RemoveMapping(commands[l], ct, pn)
           removed == Len(kept) < Len(commands[l])
       IN /\ commands' = [commands EXCEPT ![l] = kept]
          /\ loc' = [loc EXCEPT ![t].had = HasPair(commands[l], ct, pn)]
          /\ IF removed
             THEN /\ pc' = [pc EXCEPT ![t] = "rm_save"]
                  /\ UNCHANGED <<ret, op, arg>>
             ELSE /\ pc' = [pc EXCEPT ![t] = "idle"]
                  /\ ret' = [ret EXCEPT ![t] =
                               [op |-> "remove", had |-> loc'[t].had, val |-> "false",
                                worker |-> 0]]
                  /\ op' = [op EXCEPT ![t] = "none"]
                  /\ arg' = [arg EXCEPT ![t] = NoArg]
    /\ row' = NoRow
    /\ UNCHANGED <<lang_order, speech_handle, wiring, setup_done, file, calls>>
    /\ UNCHANGED <<parameters, config, listener_thread, running, app_handle,
                   lk, poisoned, wk, emitted>>

Saving(t) == pc[t] \in {"add_save", "rm_save"}

\* What the call returns when save_commands returned Ok.
SavedValue(t) == IF pc[t] = "rm_save" THEN "true" ELSE "Ok"

\* speech.rs 47-60, 64: get_commands_path without an app handle
SaveWithoutHandle(t) ==
    /\ Saving(t)
    /\ ~speech_handle
    /\ Return(t, "Err_no_handle")
    /\ row' = RowAfterFailedSave(t)
    /\ UNCHANGED <<commands, lang_order, speech_handle, wiring, setup_done, file, calls>>
    /\ UNCHANGED <<parameters, config, listener_thread, running, app_handle,
                   lk, poisoned, wk, emitted>>

\* A snapshot taken before the other caller put in the mapping it has not
\* saved yet.
SavedMapBeforeOthers(t) ==
    LET u == CHOOSE c \in Callers : c # t IN
    IF pc[u] = "add_save"
    THEN [commands EXCEPT ![arg[u].input.lang] =
            RemoveMapping(@, arg[u].input.mapping.command_text,
                          arg[u].input.mapping.parameter_name)]
    ELSE commands

\* speech.rs 65-66: save_commands takes the lock and serializes the map as
\* it is then; the guard lives to the end of the function.
SavedMap(t) == commands

\* speech.rs 65-70: serialize the map under its lock and write the file.
SaveWrites(t) ==
    /\ Saving(t)
    /\ speech_handle
    /\ file' = Document(Serialize(SavedMap(t), lang_order))
    /\ Return(t, SavedValue(t))
    /\ row' = IF pc[t] = "add_save"
              THEN RowAfterSave(arg[t].input, TRUE, file'.doc) ELSE NoRow
    /\ UNCHANGED <<commands, lang_order, speech_handle, wiring, setup_done, calls>>
    /\ UNCHANGED <<parameters, config, listener_thread, running, app_handle,
                   lk, poisoned, wk, emitted>>

\* speech.rs 49-54, 69: the data directory cannot be resolved or created, or
\* the file cannot be opened: nothing is written.
SaveFailsBeforeWriting(t) ==
    /\ Saving(t)
    /\ speech_handle
    /\ Return(t, "Err_io")
    /\ row' = RowAfterFailedSave(t)
    /\ UNCHANGED <<commands, lang_order, speech_handle, wiring, setup_done, file, calls>>
    /\ UNCHANGED <<parameters, config, listener_thread, running, app_handle,
                   lk, poisoned, wk, emitted>>

\* speech.rs 69: fs::write creates (truncates) the file and then writes; an
\* error of the write leaves a truncated document behind.
SaveFailsWhileWriting(t) ==
    /\ Saving(t)
    /\ speech_handle
    /\ file' = Malformed
    /\ Return(t, "Err_io")
    /\ row' = RowAfterFailedSave(t)
    /\ UNCHANGED <<commands, lang_order, speech_handle, wiring, setup_done, calls>>
    /\ UNCHANGED <<parameters, config, listener_thread, running, app_handle,
                   lk, poisoned, wk, emitted>>

Next ==
    \/ \E t \in Callers :
         \/ CallStart(t)
         \/ CallStop(t)
         \/ CallRestart(t)
         \/ CallUpdateConfig(t)
         \/ CallInitialize(t)
         \/ CallUpdateParameter(t, LifecycleParams)
         \/ StartLock(t)
         \/ StartBind(t)
         \/ StartStore(t)
         \/ StopLock(t)
         \/ StopTake(t)
         \/ StopJoin(t)
         \/ UcSwap(t)
         \/ UcCheck(t)
         \/ Initialize(t)
         \/ UpInsert(t)
         \/ UpHandle(t)
         \/ UpRelockBlocks(t)
         \/ UpRelockPanics(t)
    \/ \E w \in Workers :
         \/ WCheck(w)
         \/ WIdle(w)
         \/ WReceive(w, LifecycleDatagrams)
         \/ WProcess(w)
         \/ WNotify(w)
         \/ WSnapshot(w)

Spec == Init /\ [][Next]_vars

(***************************************************************************)
(* The command registry on its own: a session starts with whatever file    *)
(* an earlier one left, the setup hook runs, then the host adds and        *)
(* removes commands from its threads.                                       *)
(***************************************************************************)
InitRegistry ==
    /\ OscNew
    /\ RegistryNew
    /\ wiring \in {"run", "direct"}
    /\ file \in InitialFiles

NextRegistry ==
    \/ SetupHook
    \/ \E t \in Callers :
         \/ CallAdd(t)
         \/ CallRemove(t)
         \/ AddMut(t)
         \/ RmMut(t)
         \/ SaveWithoutHandle(t)
         \/ SaveWrites(t)
         \/ SaveFailsBeforeWriting(t)
         \/ SaveFailsWhileWriting(t)

SpecRegistry == InitRegistry /\ [][NextRegistry]_vars
(***************************************************************************)
(* SpeechState::initialize / load_commands on its own: the registry, the   *)
(* file and the handle it is called with are drawn from small sets, the    *)
(* host calls initialize from its threads.                                  *)
(***************************************************************************)
\* The lists a language may hold when load_commands is called.
LoadLists ==
    {<<>>, <<Mapping("on", "p", 0)>>, <<Mapping("on", "p", 0), Mapping("off", "p", 1)>>}

\* The documents commands.json may hold.
LoadFiles ==
    InitialFiles \cup
    {Document(<<>>),
     Document(<<[lang |-> "ja", list |-> <<Mapping("on", "p", 1)>>],
                [lang |-> "en", list |-> <<Mapping("on", "q", 1)>>]>>)}

\* The map load_commands stores instead of the one in memory.
LoadMerges(cmds, doc) ==
    [l \in Languages |-> IF l \in DocKeys(doc) THEN Deserialize(doc)[l] ELSE cmds[l]]

\* speech.rs 87-88: *commands = loaded_commands
LoadedCommands(cmds, doc) == Deserialize(doc)

\* The host calls SpeechState::initialize (speech.rs 42-45).
CallLoad(t) == InvokeRegistry(t, "load", NoArg)

\* speech.rs 43, 74-81: the handle is set, the path resolved; no file at the
\* path is Ok and nothing is loaded.
LoadMissing(t) ==
    /\ pc[t] = "ld_read"
    /\ file.state = "missing"
    /\ speech_handle' = TRUE
    /\ Return(t, "Ok")
    /\ UNCHANGED <<commands, lang_order, wiring, setup_done, file, calls, row>>
    /\ UNCHANGED <<parameters, config, listener_thread, running, app_handle,
                   lk, poisoned, wk, emitted>>

\* speech.rs 83-85: the file is no UTF-8 text or no JSON document of the
\* map: the error leaves through `?` before the map is touched.
LoadMalformed(t) ==
    /\ pc[t] = "ld_read"
    /\ file.state = "malformed"
    /\ speech_handle' = TRUE
    /\ Return(t, "Err_parse")
    /\ UNCHANGED <<commands, lang_order, wiring, setup_done, file, calls, row>>
    /\ UNCHANGED <<parameters, config, listener_thread, running, app_handle,
                   lk, poisoned, wk, emitted>>

\* speech.rs 83-90: the document is parsed and stored under the lock.
LoadReplaces(t) ==
    /\ pc[t] = "ld_read"
    /\ file.state = "doc"
    /\ speech_handle' = TRUE
    /\ commands' = LoadedCommands(commands, file.doc)
    /\ lang_order' \in Orders(DocKeys(file.doc))
    /\ Return(t, "Ok")
    /\ UNCHANGED <<wiring, setup_done, file, calls, row>>
    /\ UNCHANGED <<parameters, config, listener_thread, running, app_handle,
                   lk, poisoned, wk, emitted>>

InitLoad ==
    /\ OscNew
    /\ commands \in [Languages -> LoadLists]
    /\ \E S \in SUBSET Languages :
         /\ \A l \in Languages : commands[l] # <<>> => l \in S
         /\ lang_order \in Orders(S)
    /\ speech_handle \in BOOLEAN
    /\ setup_done = TRUE
    /\ calls = 0
    /\ row = NoRow
    /\ wiring = "direct"
    /\ file \in LoadFiles

NextLoad ==
    \E t \in Callers :
        \/ CallLoad(t)
        \/ LoadMissing(t)
        \/ LoadMalformed(t)
        \/ LoadReplaces(t)

SpecLoad == InitLoad /\ [][NextLoad]_vars

(***************************************************************************)
(* Encoding and decoding on their own: a parameter is encoded as            *)
(* send_parameter does and the packet decoded as the listener does.        *)
(***************************************************************************)
\* Names: plain ones, the empty one, and ones holding the prefix text.
RoundTripNames ==
    {<<"p">>, <<>>, <<"p", "q">>, <<"p", Prefix>>, <<Prefix, "p">>, <<Prefix>>}

\* Values around zero, the Bool threshold and one: -1.5, -0.5, 0, 0.4, 0.5,
\* 0.6, 1.0, 1.5, 2.0.
RoundTripValues == {-15, -5, 0, 4, 5, 6, 10, 15, 20}

CallRoundTrip(t) ==
    \E n \in RoundTripNames, k \in Kinds, v \in RoundTripValues :
        Invoke(t, "roundtrip", [kind |-> "param", value |-> v, name |-> n, pkind |-> k])

\* osc.rs 283-298
RtEncode(t) ==
    /\ pc[t] = "rt_encode"
    /\ loc' = [loc EXCEPT ![t] =
                 [handle |-> 0, had |-> FALSE,
                  packet |-> Encode(arg[t].name, arg[t].value, arg[t].pkind)]]
    /\ Goto(t, "rt_decode")
    /\ UNCHANGED <<parameters, config, listener_thread, running, app_handle,
                   lk, poisoned, wk, emitted>>
    /\ UNCHANGED regVars

\* osc.rs 247-270: ret keeps the parameter that went in and the one that
\* came out.
RtDecode(t) ==
    /\ pc[t] = "rt_decode"
    /\ pc' = [pc EXCEPT ![t] = "idle"]
    /\ ret' = [ret EXCEPT ![t] =
                 [op |-> "roundtrip", had |-> FALSE, val |-> "Ok", worker |-> 0,
                  input |-> arg[t], got |-> Decode(loc[t].packet)]]
    /\ op' = [op EXCEPT ![t] = "none"]
    /\ arg' = [arg EXCEPT ![t] = NoArg]
    /\ loc' = [loc EXCEPT ![t] = NoLoc]
    /\ UNCHANGED <<parameters, config, listener_thread, running, app_handle,
                   lk, poisoned, wk, emitted>>
    /\ UNCHANGED regVars

NextRoundTrip ==
    \E t \in Callers :
        \/ CallRoundTrip(t)
        \/ RtEncode(t)
        \/ RtDecode(t)

SpecRoundTrip == Init /\ [][NextRoundTrip]_vars

(***************************************************************************)
(* SpeechState::process_speech_input.  Texts are sequences of characters.  *)
(* The call of send_parameter at speech.rs 158 passes three arguments to   *)
(* the four-parameter function of osc.rs 283; it is read as passing the    *)
(* osc_state the function was given.  ret keeps what the call was given,   *)
(* the result strings it returned and the packets it sent.                  *)
(***************************************************************************)
\* char::to_lowercase on the characters of the model
Lower(c) == CASE c = "A" -> "a" [] c = "B" -> "b" [] OTHER -> c

\* str::to_lowercase
ToLowercase(str) == [i \in 1..Len(str) |-> Lower(str[i])]

\* str::contains
Contains(hay, needle) ==
    \E i \in 1..(Len(hay) - Len(needle) + 1) :
        SubSeq(hay, i, i + Len(needle) - 1) = needle

\* The comparison without the lower-casing of either side.
MatchesExactCase(text, ct) == Contains(text, ct)

\* speech.rs 145, 148
Matches(text, ct) == Contains(ToLowercase(text), ToLowercase(ct))

\* speech.rs 150-155: the kind the store holds for the name, Float if none
KindOf(params, name) ==
    IF name \in ParamNames /\ params[name] # NoParam THEN params[name].kind ELSE "Float"

\* speech.rs 160-164: format!("{} -> {}: {}", ..)
ResultString(m) == <<m.command_text, m.parameter_name, m.value>>

\* osc.rs 299-300: the destination address parses
Sendable(c) == Parseable(c.target_address)

\* The registries a call may find, the texts and languages it is given.
ProcessLists ==
    {<<Mapping(<<"a">>, "p", 10), Mapping(<<"A", "b">>, "q", 5), Mapping(<<"b", "b">>, "p", 15)>>,
     <<Mapping(<<"b", "b">>, "p", 15), Mapping(<<"a", "B">>, "p", 6), Mapping(<<"a">>, "q", 10)>>,
     <<Mapping(<<>>, "q", 0), Mapping(<<"a">>, "p", 10)>>}

ProcessTexts == {<<>>, <<"A">>, <<"B", "a", "b">>, <<"b", "B">>, <<"c">>}

\* The config as update_config left it: the default, or one whose target
\* address is no IP literal.
ProcessConfigs == {DefaultConfig, [DefaultConfig EXCEPT !.target_address = "localhost"]}

ProcessParams ==
    {[kind |-> "Int", value |-> 0, name |-> "p"],
     [kind |-> "Bool", value |-> 10, name |-> "q"]}

CallProcess(t) ==
    \E x \in ProcessTexts, l \in Languages :
        Invoke(t, "process", [kind |-> "process", lang |-> l, text |-> x])

\* process_speech_input returns v and the result strings out.
ReturnProcess(t, v, out) ==
    /\ pc' = [pc EXCEPT ![t] = "idle"]
    /\ ret' = [ret EXCEPT ![t] =
                 [op |-> "process", had |-> FALSE, val |-> v, worker |-> 0,
                  lang |-> arg[t].lang, text |-> arg[t].text,
                  out |-> out, sent |-> loc[t].sent]]
    /\ op' = [op EXCEPT ![t] = "none"]
    /\ arg' = [arg EXCEPT ![t] = NoArg]
    /\ loc' = [loc EXCEPT ![t] = NoLoc]

\* speech.rs 142-145: a copy of the language's list, taken under the lock
PsGet(t) ==
    /\ pc[t] = "ps_get"
    /\ loc' = [loc EXCEPT ![t] =
                 [handle |-> 0, had |-> FALSE, out |-> <<>>,
                  sent |-> <<>>, todo |-> commands[arg[t].lang]]]
    /\ Goto(t, "ps_loop")
    /\ UNCHANGED <<parameters, config, listener_thread, running, app_handle,
                   lk, poisoned, wk, emitted>>
    /\ UNCHANGED regVars

\* speech.rs 147-148: the next mapping does not match
PsSkip(t) ==
    /\ pc[t] = "ps_loop"
    /\ loc[t].todo # <<>>
    /\ ~Matches(arg[t].text, Head(loc[t].todo).command_text)
    /\ loc' = [loc EXCEPT ![t].todo = Tail(@)]
    /\ Goto(t, "ps_loop")
    /\ UNCHANGED <<parameters, config, listener_thread, running, app_handle,
                   lk, poisoned, wk, emitted>>
    /\ UNCHANGED regVars

\* The loop going on to the next mapping after a failed send.
SendFailedGoesOn(t) ==
    /\ loc' = [loc EXCEPT ![t].todo = Tail(@)]
    /\ Goto(t, "ps_loop")

\* speech.rs 166-168: return Err(..), the collected strings dropped
SendFailed(t) == ReturnProcess(t, "Err_send", <<>>)

\* speech.rs 148-165: the next mapping matches; its kind is looked up in a
\* copy of the store taken under the parameters lock, the packet is sent
\* and the result string collected.
PsSend(t) ==
    /\ pc[t] = "ps_loop"
    /\ loc[t].todo # <<>>
    /\ lk["params"] = Free
    /\ ~poisoned["params"]
    /\ Sendable(config)
    /\ LET m == Head(loc[t].todo) IN
       /\ Matches(arg[t].text, m.command_text)
       /\ loc' = [loc EXCEPT
                    ![t].todo = Tail(@),
                    ![t].sent = Append(@, Encode(<<m.parameter_name>>, m.value,
                                                 KindOf(parameters, m.parameter_name))),
                    ![t].out = Append(@, ResultString(m))]
    /\ Goto(t, "ps_loop")
    /\ UNCHANGED <<parameters, config, listener_thread, running, app_handle,
                   lk, poisoned, wk, emitted>>
    /\ UNCHANGED regVars

\* osc.rs 300-304: the destination does not parse, or the socket cannot be
\* bound or written to
PsSendFails(t) ==
    /\ pc[t] = "ps_loop"
    /\ loc[t].todo # <<>>
    /\ lk["params"] = Free
    /\ ~poisoned["params"]
    /\ Matches(arg[t].text, Head(loc[t].todo).command_text)
    /\ SendFailed(t)
    /\ UNCHANGED <<parameters, config, listener_thread, running, app_handle,
                   lk, poisoned, wk, emitted>>
    /\ UNCHANGED regVars

\* speech.rs 173
PsDone(t) ==
    /\ pc[t] = "ps_loop"
    /\ loc[t].todo = <<>>
    /\ ReturnProcess(t, "Ok", loc[t].out)
    /\ UNCHANGED <<parameters, config, listener_thread, running, app_handle,
                   lk, poisoned, wk, emitted>>
    /\ UNCHANGED regVars

\* A registry and a config as earlier calls left them; no host handle, so
\* that update_parameter returns.
InitProcess ==
    /\ parameters = [n \in ParamNames |-> NoParam]
    /\ config \in ProcessConfigs
    /\ listener_thread = 0
    /\ running = FALSE
    /\ app_handle = FALSE
    /\ lk = [l \in Locks |-> Free]
    /\ poisoned = [l \in Locks |-> FALSE]
    /\ wk = [w \in Workers |-> FreeWorker]
    /\ pc = [t \in Callers |-> "idle"]
    /\ op = [t \in Callers |-> "none"]
    /\ arg = [t \in Callers |-> NoArg]
    /\ loc = [t \in Callers |-> NoLoc]
    /\ ret = [t \in Callers |-> NoRet]
    /\ emitted = NoEmit
    /\ \E list \in ProcessLists :
         commands = [l \in Languages |->
                       IF l = "en" THEN list ELSE <<Mapping(<<"b">>, "p", 0)>>]
    /\ lang_order = <<"en", "ja">>
    /\ speech_handle = TRUE
    /\ setup_done = TRUE
    /\ calls = 0
    /\ row = NoRow
    /\ wiring = "direct"
    /\ file = Missing

NextProcess ==
    \E t \in Callers :
        \/ CallProcess(t)
        \/ PsGet(t)
        \/ PsSkip(t)
        \/ PsSend(t)
        \/ PsSendFails(t)
        \/ PsDone(t)
        \/ CallUpdateParameter(t, ProcessParams)
        \/ UpInsert(t)
        \/ UpHandle(t)

SpecProcess == InitProcess /\ [][NextProcess]_vars

(***************************************************************************)
(* The parameter store and the set_parameter_value command on their own:   *)
(* the host attaches its handle, upserts, sets values and sends them.      *)
(***************************************************************************)
\* The kind labels the host hands to set_parameter_value.
KindLabels == Kinds \cup {"String"}

StoreParams ==
    {[kind |-> "Int", value |-> 0, name |-> "p"],
     [kind |-> "Bool", value |-> 10, name |-> "q"]}

\* The values the host sets: 0.6 and 1.5.
SetValues == {6, 15}

CallSetValue(t) ==
    \E n \in ParamNames, v \in SetValues, l \in KindLabels :
        Invoke(t, "set_value", [kind |-> "set_value", value |-> v, name |-> n, label |-> l])

\* set_parameter_value returns v; ret keeps what the call was given and the
\* packets it sent.
ReturnValue(t, v) ==
    /\ pc' = [pc EXCEPT ![t] = "idle"]
    /\ ret' = [ret EXCEPT ![t] =
                 [op |-> "set_value", had |-> FALSE, val |-> v, worker |-> 0,
                  input |-> arg[t], sent |-> loc[t].sent]]
    /\ op' = [op EXCEPT ![t] = "none"]
    /\ arg' = [arg EXCEPT ![t] = NoArg]
    /\ loc' = [loc EXCEPT ![t] = NoLoc]

\* osc.rs 323-328
SvKind(t) ==
    /\ pc[t] = "sv_kind"
    /\ IF arg[t].label \in Kinds
       THEN /\ loc' = [loc EXCEPT ![t] = [handle |-> 0, had |-> FALSE, sent |-> <<>>]]
            /\ Goto(t, "sv_send")
       ELSE /\ pc' = [pc EXCEPT ![t] = "idle"]
            /\ ret' = [ret EXCEPT ![t] =
                         [op |-> "set_value", had |-> FALSE, val |-> "Err_invalid",
                          worker |-> 0, input |-> arg[t], sent |-> <<>>]]
            /\ op' = [op EXCEPT ![t] = "none"]
            /\ arg' = [arg EXCEPT ![t] = NoArg]
            /\ UNCHANGED loc
    /\ UNCHANGED <<parameters, config, listener_thread, running, app_handle,
                   lk, poisoned, wk, emitted>>
    /\ UNCHANGED regVars

\* osc.rs 330, 283-306: the packet goes out
SvSend(t) ==
    /\ pc[t] = "sv_send"
    /\ Sendable(config)
    /\ loc' = [loc EXCEPT ![t].sent =
                 Append(@, Encode(<<arg[t].name>>, arg[t].value, arg[t].label))]
    /\ Goto(t, "sv_set")
    /\ UNCHANGED <<parameters, config, listener_thread, running, app_handle,
                   lk, poisoned, wk, emitted>>
    /\ UNCHANGED regVars

\* The error of the send ignored: on to the store.
SendErrorIgnored(t) ==
    /\ Goto(t, "sv_set")
    /\ UNCHANGED loc

\* osc.rs 330-331: `?` returns the error of the send
SendError(t) == ReturnValue(t, "Err_send")

\* osc.rs 300-304: the destination does not parse, or the socket cannot be
\* bound or written to
SvSendFails(t) ==
    /\ pc[t] = "sv_send"
    /\ SendError(t)
    /\ UNCHANGED <<parameters, config, listener_thread, running, app_handle,
                   lk, poisoned, wk, emitted>>
    /\ UNCHANGED regVars

\* osc.rs 333-335: state.set_parameter(name, value)
SvSet(t) ==
    /\ pc[t] = "sv_set"
    /\ lk["params"] = Free
    /\ IF poisoned["params"]
       THEN /\ Panic(t)
            /\ UNCHANGED parameters
       ELSE IF parameters[arg[t].name] # NoParam
            THEN /\ parameters' = [parameters EXCEPT ![arg[t].name].value = arg[t].value]
                 /\ ReturnValue(t, "Ok")
            ELSE /\ ReturnValue(t, "Err_not_found")
                 /\ UNCHANGED parameters
    /\ UNCHANGED <<config, listener_thread, running, app_handle, lk,
                   poisoned, wk, emitted>>
    /\ UNCHANGED regVars

InitStore ==
    /\ parameters = [n \in ParamNames |-> NoParam]
    /\ config \in ProcessConfigs
    /\ listener_thread = 0
    /\ running = FALSE
    /\ app_handle = FALSE
    /\ lk = [l \in Locks |-> Free]
    /\ poisoned = [l \in Locks |-> FALSE]
    /\ wk = [w \in Workers |-> FreeWorker]
    /\ pc = [t \in Callers |-> "idle"]
    /\ op = [t \in Callers |-> "none"]
    /\ arg = [t \in Callers |-> NoArg]
    /\ loc = [t \in Callers |-> NoLoc]
    /\ ret = [t \in Callers |-> NoRet]
    /\ emitted = NoEmit
    /\ RegistryNew
    /\ wiring = "run"
    /\ file = Missing

NextStore ==
    \E t \in Callers :
        \/ CallInitialize(t)
        \/ Initialize(t)
        \/ CallUpdateParameter(t, StoreParams)
        \/ UpInsert(t)
        \/ UpHandle(t)
        \/ UpRelockBlocks(t)
        \/ UpRelockPanics(t)
        \/ CallSetParameter(t)
        \/ SetParameter(t)
        \/ CallSetValue(t)
        \/ SvKind(t)
        \/ SvSend(t)
        \/ SvSendFails(t)
        \/ SvSet(t)

SpecStore == InitStore /\ [][NextStore]_vars

(***************************************************************************)
(* The listener on inbound traffic: the host attaches its handle and       *)
(* starts the listener, the peer sends messages and bundles.                *)
(***************************************************************************)
\* Messages that carry a parameter, and messages that do not: another
\* address, no argument, a first argument of another type (a supported one
\* behind it).
FloatP == Message(TRUE, "p", <<OscArg("Float", 15)>>)
IntP == Message(TRUE, "p", <<OscArg("Int", 2), OscArg("Float", 5)>>)
BoolQ == Message(TRUE, "q", <<OscArg("Bool", TRUE)>>)
OtherAddress == Message(FALSE, "p", <<OscArg("Float", 15)>>)
NoArguments == Message(TRUE, "p", <<>>)
StringFirst == Message(TRUE, "q", <<OscArg("String", 0), OscArg("Float", 15)>>)

InboundDatagrams ==
    {FloatP, IntP, BoolQ, OtherAddress, NoArguments, StringFirst,
     Bundle(<<FloatP, StringFirst, IntP>>),
     Bundle(<<BoolQ, Bundle(<<IntP, OtherAddress, FloatP>>), NoArguments>>),
     Bundle(<<Bundle(<<FloatP>>), IntP>>),
     Bundle(<<OtherAddress, Bundle(<<>>), Bundle(<<NoArguments>>)>>)}

NextInbound ==
    \/ \E t \in Callers :
         \/ CallInitialize(t)
         \/ Initialize(t)
         \/ CallStart(t)
         \/ StartLock(t)
         \/ StartBind(t)
         \/ StartStore(t)
    \/ \E w \in Workers :
         \/ WCheck(w)
         \/ WIdle(w)
         \/ WReceive(w, InboundDatagrams)
         \/ WProcess(w)
         \/ WNotify(w)
         \/ WSnapshot(w)

SpecInbound == Init /\ [][NextInbound]_vars

(***************************************************************************)
(* The claims about the listener lifecycle and the parameter store,        *)
(* checked under Spec.                                                      *)
(***************************************************************************)
LiveWorkers == {w \in Workers : LiveWorker(w)}

\* A caller is in handle.join() for a worker that is at its flag check,
\* which needs the running lock, while the caller holds that lock: neither
\* can ever take another step.
JoinStuck(t) ==
    /\ pc[t] = "st_join"
    /\ wk[loc[t].handle].pc = "check"
    /\ lk["running"] = CallerId(t)

\* C1: stop() called while the listener is Running always returns: the
\* worker observes the cleared flag on its next poll, exits and is joined;
\* the caller is never blocked for ever.  Stated as: no stop_listener call
\* is ever stuck joining a worker that waits for the caller's own lock.
C1_StopAlwaysReturns == \A t \in Callers : ~JoinStuck(t)

\* C2: under any interleaving of start, stop, restart and updateConfig, at
\* most one listener worker (with its socket) is alive; start while Running
\* returns Ok and spawns nothing, stop while Stopped returns Ok and changes
\* nothing.
C2_AtMostOneWorker ==
    /\ [](Cardinality(LiveWorkers) <= 1)
    /\ [][\A t \in Callers :
            /\ (pc[t] = "sl_lock" /\ pc'[t] # "sl_lock" /\ running) =>
                 /\ pc'[t] = "idle" /\ ret'[t].val = "Ok"
                 /\ wk' = wk /\ running' /\ lk' = lk
                 /\ listener_thread' = listener_thread
            /\ (pc[t] = "st_lock" /\ pc'[t] # "st_lock" /\ ~running) =>
                 /\ wk' = wk /\ ~running' /\ lk' = lk
                 /\ listener_thread' = listener_thread
                 /\ op[t] = "stop" => (pc'[t] = "idle" /\ ret'[t].val = "Ok")]_vars

\* One caller's stop found the listener Stopped and another's start found
\* it Running; both returned Ok without a worker of their own, one is alive.
C2_Witness ==
    \E t, u \in Callers :
        /\ ret[t] = [op |-> "stop", had |-> FALSE, val |-> "Ok", worker |-> 0]
        /\ ret[u] = [op |-> "start", had |-> FALSE, val |-> "Ok", worker |-> 0]
        /\ running
        /\ Cardinality(LiveWorkers) = 1

\* C3: updateConfig with a changed config on a Running listener does one
\* stop followed by one start and leaves the listener Running on the new
\* listen address.  Stated as: the restart of an update_config call is never
\* stuck in its stop.
C3_RestartCompletes ==
    \A t \in Callers : op[t] = "update_config" => ~JoinStuck(t)

\* C4: a start that cannot parse or bind the listen address returns an
\* error at once, spawns no worker and leaves the listener Stopped (flag
\* false, no handle, running lock released), and a start that can bind
\* spawns the worker.
C4_FailedStartLeavesStopped ==
    [][\A t \in Callers :
         (pc[t] = "sl_bind" /\ pc'[t] # "sl_bind") =>
            IF Bindable(config)
            THEN /\ pc'[t] = "sl_store" /\ running'
                 /\ Cardinality({w \in Workers : wk'[w].pc # "free"})
                      = Cardinality({w \in Workers : wk[w].pc # "free"}) + 1
            ELSE /\ pc'[t] = "idle" /\ ret'[t].val = "Err"
                 /\ wk' = wk /\ ~running' /\ listener_thread' = 0
                 /\ lk'["running"] = Free]_vars

\* A start failed and left the listener Stopped; a later start, once the
\* address could be bound, spawned the worker that is running now.
C4_Witness ==
    \E t, u \in Callers :
        /\ ret[t].op = "start" /\ ret[t].val = "Err"
        /\ ret[u].op = "start" /\ ret[u].val = "Ok" /\ ret[u].worker # 0
        /\ running /\ LiveWorker(ret[u].worker)

\* C5: ParameterStore.upsert always succeeds and returns, host handle
\* attached or not, and with the handle attached emits one notification.
\* Stated as: no update_parameter call ends blocked or panicked.
C5_UpsertAlwaysReturns ==
    \A t \in Callers :
        op[t] = "update_parameter" => pc[t] \notin {"up_deadlock", "panicked"}

(***************************************************************************)
(* The claims about the command registry, checked under SpecRegistry.      *)
(***************************************************************************)
\* C6: as wired by run(), every addCommand and every removeCommand that
\* removes something writes the registry to the commands file before it
\* returns (an I/O error of the file system apart): on return the document
\* on disk denotes the registry in memory.
C6_WiredCommandsPersist ==
    [][\A t \in Callers :
         (wiring = "run" /\ Saving(t) /\ pc'[t] = "idle" /\ ret'[t].val # "Err_io")
            => Persisted']_vars

\* C7: after any sequence of upserts and removes, concurrent ones included,
\* no language's list holds two mappings with the same (commandText,
\* parameterName) pair.
C7_UniquePairs ==
    \A l \in Languages : \A i, j \in 1..Len(commands[l]) :
        (i # j) =>
            ~KeyMatches(commands[l][i], commands[l][j].command_text,
                        commands[l][j].parameter_name)

\* Both callers are between the mutation and the save of an upsert of one
\* pair with different values, in a list that holds other pairs too.
C7_Witness ==
    /\ pc[1] = "add_save" /\ pc[2] = "add_save"
    /\ arg[1].input.lang = arg[2].input.lang
    /\ arg[1].input.mapping.command_text = arg[2].input.mapping.command_text
    /\ arg[1].input.mapping.parameter_name = arg[2].input.mapping.parameter_name
    /\ arg[1].input.mapping.value # arg[2].input.mapping.value
    /\ Len(commands[arg[1].input.lang]) >= 2

\* C8: upsert is idempotent: a second call in a row with the identical
\* mapping leaves the registry exactly as the first left it (one matching
\* entry, at its position, everything else unchanged), and the file it
\* writes has the same content as the file the first wrote.
C8_IdempotentUpsert ==
    row.stage \in {"again", "saved_again"} =>
        /\ commands = row.commands
        /\ lang_order = row.order
        /\ Cardinality({i \in 1..Len(commands[row.input.lang]) :
                          KeyMatches(commands[row.input.lang][i],
                                     row.input.mapping.command_text,
                                     row.input.mapping.parameter_name)}) = 1
        /\ (row.stage = "saved_again" /\ row.wrote) => file = Document(row.doc)

\* The second of two identical upserts has written the file as the first
\* did; the mapping is the first of two in its list and the registry holds
\* two languages.
C8_Witness ==
    /\ row.stage = "saved_again" /\ row.wrote
    /\ Len(commands[row.input.lang]) >= 2
    /\ Position(commands[row.input.lang], row.input.mapping) = 1
    /\ Len(lang_order) = 2

\* new holds the entries of old that do not match the pair, in their order.
KeptInOrder(old, new, ct, pn) ==
    LET keep == {i \in 1..Len(old) : ~KeyMatches(old[i], ct, pn)} IN
    /\ Len(new) = Cardinality(keep)
    /\ \E f \in [1..Len(new) -> keep] :
         /\ \A a, b \in 1..Len(new) : a < b => f[a] < f[b]
         /\ \A a \in 1..Len(new) : new[a] = old[f[a]]

\* C9, as stated: remove returns true exactly when the language's list held
\* an entry with the pair before the call.
C9_TrueIffHeld ==
    \A t \in Callers :
        ret[t].op = "remove" => (ret[t].val = "true" <=> ret[t].had)

\* C9, amended: remove leaves no entry with the pair in the list, the other
\* entries in their order and the other languages unchanged; when the list
\* held no such entry it returns false and changes neither memory nor the
\* file; when it held one, the file is written and the call returns true, or
\* returns the error of the write with the removal kept in memory.
C9_RemoveAmended ==
    [][\A t \in Callers :
         /\ (pc[t] = "rm_mut" /\ pc'[t] # "rm_mut") =>
              LET l == arg[t].input.lang
                  ct == arg[t].input.command_text
                  pn == arg[t].input.parameter_name
              IN /\ ~HasPair(commands'[l], ct, pn)
                 /\ KeptInOrder(commands[l], commands'[l], ct, pn)
                 /\ \A k \in Languages \ {l} : commands'[k] = commands[k]
                 /\ lang_order' = lang_order
                 /\ file' = file
                 /\ IF HasPair(commands[l], ct, pn)
                    THEN pc'[t] = "rm_save"
                    ELSE /\ pc'[t] = "idle" /\ ret'[t].val = "false"
                         /\ commands' = commands
         /\ (pc[t] = "rm_save" /\ pc'[t] # "rm_save") =>
              /\ pc'[t] = "idle" /\ ret'[t].had
              /\ commands' = commands /\ lang_order' = lang_order
              /\ ret'[t].val \in {"true", "Err_io", "Err_no_handle"}
              /\ ret'[t].val = "true" => Persisted'
              /\ ret'[t].val # "true" => file' \in {file, Malformed}]_vars

\* A remove took one entry out of a list that keeps two others, wrote the
\* file and returned true.
C9_Witness ==
    \E t \in Callers :
        /\ ret[t].op = "remove" /\ ret[t].val = "true"
        /\ Len(commands["en"]) = 2
        /\ Persisted

\* C10, as stated: when the write of an upsert fails the error is returned,
\* the mutation is kept and the file still holds its previous content.
C10_FailedWriteKeepsFile ==
    [][\A t \in Callers :
         (pc[t] = "add_save" /\ pc'[t] = "idle" /\ ret'[t].val # "Ok") =>
            /\ commands' = commands
            /\ file' = file]_vars

\* C10, amended: the upsert puts the mapping into the list; when its write
\* fails the error is returned and memory is left as it is (no rollback),
\* while the file holds its previous content or, when the write failed
\* after fs::write had truncated the file, a truncated document; a write
\* that succeeds brings the file back to the registry.
C10_FailedWriteAmended ==
    [][\A t \in Callers :
         /\ (pc[t] = "add_mut" /\ pc'[t] # "add_mut") =>
              LET l == arg[t].input.lang
                  m == arg[t].input.mapping
              IN /\ \E i \in 1..Len(commands'[l]) : commands'[l][i] = m
                 /\ file' = file
         /\ (pc[t] = "add_save" /\ pc'[t] # "add_save") =>
              /\ pc'[t] = "idle"
              /\ commands' = commands /\ lang_order' = lang_order
              /\ ret'[t].val \in {"Ok", "Err_io", "Err_no_handle"}
              /\ ret'[t].val = "Ok" => Persisted'
              /\ ret'[t].val # "Ok" => file' \in {file, Malformed}]_vars

\* An upsert returned the error of its write: its mapping is in memory, and
\* the file, truncated by the failed write, does not hold the registry.
C10_Witness ==
    \E t \in Callers :
        /\ ret[t].op = "add" /\ ret[t].val = "Err_io"
        /\ file = Malformed
        /\ \E l \in Languages : commands[l] # <<>>
C17_RoundTrip ==
    \A t \in Callers :
        ret[t].op = "roundtrip" =>
            LET in == ret[t].input
                v == in.value
                whole == IF v >= 0 THEN v - (v % Unit) ELSE v + ((-v) % Unit)
            IN /\ ret[t].got.name = in.name
               /\ ret[t].got.kind = in.pkind
               /\ ret[t].got.value =
                    CASE in.pkind = "Float" -> v
                      [] in.pkind = "Int" -> whole
                      [] in.pkind = "Bool" -> IF 2 * v > Unit THEN Unit ELSE 0
(***************************************************************************)
(* The claims about the speech matcher, checked under SpecProcess (the     *)
(* registry does not change while it runs).                                 *)
(***************************************************************************)
\* The lower-cased command text occurs in the lower-cased text.
Occurs(text, ct) ==
    \E i \in 0..Len(text) :
        /\ i + Len(ct) <= Len(text)
        /\ \A k \in 1..Len(ct) : Lower(text[i + k]) = Lower(ct[k])

\* The mappings of the language that the text matches, in registry order.
Hits(text, lang) == SelectSeq(commands[lang], LAMBDA m : Occurs(text, m.command_text))

\* The packet for mapping m when the store is params.
PacketFor(m, params) ==
    LET known == params[m.parameter_name] # NoParam
        kind == IF known THEN params[m.parameter_name].kind ELSE "Float"
        whole == IF m.value >= 0 THEN (m.value - (m.value % Unit)) \div Unit
                 ELSE -(((-m.value) - ((-m.value) % Unit)) \div Unit)
    IN [addr |-> <<Prefix, m.parameter_name>>,
        args |-> <<[v |-> CASE kind = "Float" -> m.value
                            [] kind = "Int" -> whole
                            [] kind = "Bool" -> 2 * m.value > Unit,
                    type |-> kind]>>]

\* C12: when every send succeeds, process issues exactly one send for each
\* mapping of the language whose lower-cased command text is a substring of
\* the lower-cased text, in registry order with no early exit, carrying the
\* mapping's value and the kind the store holds for its parameter (Float
\* when it holds none), and returns one result string per matching mapping
\* in that order; a mapping that does not match causes no send.
C12_ProcessSendsMatches ==
    /\ [](\A t \in Callers :
            (ret[t].op = "process" /\ ret[t].val = "Ok") =>
               LET hits == Hits(ret[t].text, ret[t].lang) IN
               /\ Len(ret[t].sent) = Len(hits)
               /\ Len(ret[t].out) = Len(hits)
               /\ \A i \in 1..Len(hits) :
                    /\ ret[t].sent[i].addr = <<Prefix, hits[i].parameter_name>>
                    /\ ret[t].out[i] = <<hits[i].command_text, hits[i].parameter_name,
                                         hits[i].value>>)
    /\ [][\A t \in Callers :
            (pc[t] = "ps_loop" /\ pc'[t] = "ps_loop" /\ loc'[t] # loc[t]) =>
               LET m == Head(loc[t].todo) IN
               /\ loc'[t].todo = Tail(loc[t].todo)
               /\ IF Occurs(arg[t].text, m.command_text)
                  THEN /\ loc'[t].sent = Append(loc[t].sent, PacketFor(m, parameters))
                       /\ loc'[t].out = Append(loc[t].out,
                                               <<m.command_text, m.parameter_name, m.value>>)
                  ELSE /\ loc'[t].sent = loc[t].sent
                       /\ loc'[t].out = loc[t].out]_vars

\* A call returned two results from a list of three mappings, the text
\* matching in another case than the command texts are written in, and one
\* of the packets has the Int kind the store held for its parameter.
C12_Witness ==
    \E t \in Callers :
        /\ ret[t].op = "process" /\ ret[t].val = "Ok"
        /\ ret[t].text = <<"B", "a", "b">>
        /\ Len(commands[ret[t].lang]) = 3
        /\ Len(ret[t].out) = 2
        /\ \E i \in 1..2 : ret[t].sent[i].args[1].type = "Int"

\* C13: when a send fails for a matching mapping, processing stops at once:
\* no later mapping is evaluated or sent, the error is returned and none of
\* the result strings collected for earlier matches reaches the caller.
C13_SendFailureStops ==
    /\ [](\A t \in Callers :
            (ret[t].op = "process" /\ ret[t].val = "Err_send") =>
               LET hits == Hits(ret[t].text, ret[t].lang) IN
               /\ ret[t].out = <<>>
               /\ Len(ret[t].sent) < Len(hits)
               /\ \A i \in 1..Len(ret[t].sent) :
                    ret[t].sent[i].addr = <<Prefix, hits[i].parameter_name>>)
    /\ [][\A t \in Callers :
            (pc[t] = "ps_loop" /\ loc[t].todo # <<>> /\ pc'[t] # "ps_loop") =>
               /\ Occurs(arg[t].text, Head(loc[t].todo).command_text)
               /\ pc'[t] = "idle"
               /\ ret'[t].val = "Err_send"
               /\ ret'[t].out = <<>>
               /\ ret'[t].sent = loc[t].sent]_vars
    /\ [][\A t \in Callers :
            (pc[t] = "ps_loop" /\ pc'[t] = "ps_loop" /\ loc'[t] # loc[t]
               /\ Occurs(arg[t].text, Head(loc[t].todo).command_text)) =>
               Len(loc'[t].sent) = Len(loc[t].sent) + 1]_vars

\* A call returned the error of its second send: one packet had gone out
\* for the first match and no result string came back.
C13_Witness ==
    \E t \in Callers :
        /\ ret[t].op = "process" /\ ret[t].val = "Err_send"
        /\ Len(ret[t].sent) = 1
        /\ Len(Hits(ret[t].text, ret[t].lang)) = 2
        /\ Len(commands[ret[t].lang]) = 3
        /\ ret[t].out = <<>>

\* C14: for each textual match the matcher writes through to the store:
\* when process returns successfully, the store entry of every matched
\* mapping's parameter holds that mapping's value (the value of the last
\* match, when several mappings name one parameter).
C14_WriteThrough ==
    [][\A t \in Callers :
         (pc[t] = "ps_loop" /\ pc'[t] = "idle" /\ ret'[t].val = "Ok") =>
            \A i \in 1..Len(ret'[t].out) :
               (\A j \in (i + 1)..Len(ret'[t].out) : ret'[t].out[j][2] # ret'[t].out[i][2])
                  => /\ parameters'[ret'[t].out[i][2]] # NoParam
                     /\ parameters'[ret'[t].out[i][2]].value = ret'[t].out[i][3]]_vars
(***************************************************************************)
(* The claims about the store and set_parameter_value, checked under       *)
(* SpecStore.                                                               *)
(***************************************************************************)
\* C15: set(name, value) on a name the store does not hold returns NotFound
\* and leaves the store unchanged, creating no entry; on a name it holds it
\* changes that entry's value only, keeping its kind and every other entry,
\* and emits no notification.
C15_SetParameter ==
    [][\A t \in Callers :
         (pc[t] = "sp_lock" /\ pc'[t] \notin {"sp_lock", "panicked"}) =>
            LET n == arg[t].name IN
            /\ pc'[t] = "idle"
            /\ emitted' = emitted
            /\ IF parameters[n] = NoParam
               THEN ret'[t].val = "NotFound" /\ parameters' = parameters
               ELSE /\ ret'[t].val = "Ok"
                    /\ parameters'[n].value = arg[t].value
                    /\ parameters'[n].kind = parameters[n].kind
                    /\ \A m \in ParamNames \ {n} : parameters'[m] = parameters[m]]_vars

\* With the host handle attached, one set returned NotFound and another Ok:
\* the store holds the Int parameter with the value that was set and no
\* entry for the other name, and nothing was emitted.
C15_Witness ==
    \E t, u \in Callers :
        /\ ret[t].op = "set_parameter" /\ ret[t].val = "NotFound"
        /\ ret[u].op = "set_parameter" /\ ret[u].val = "Ok"
        /\ app_handle
        /\ emitted = NoEmit
        /\ parameters = [n \in ParamNames |->
                           IF n = "p" THEN [kind |-> "Int", value |-> 1] ELSE NoParam]

\* C16: setParameterValue sends first and updates the store only after a
\* successful send: a kind label other than Float, Int or Bool returns a
\* validation error with nothing sent and the store unchanged, a failed
\* send returns an error with the store unchanged, and the store changes in
\* the step after the packet went out only.
C16_SendThenStore ==
    [][\A t \in Callers :
         /\ (pc[t] = "sv_kind" /\ pc'[t] # "sv_kind") =>
              /\ parameters' = parameters
              /\ IF arg[t].label \in {"Float", "Int", "Bool"}
                 THEN pc'[t] = "sv_send" /\ loc'[t].sent = <<>>
                 ELSE /\ pc'[t] = "idle" /\ ret'[t].val = "Err_invalid"
                      /\ ret'[t].sent = <<>>
         /\ (pc[t] = "sv_send" /\ pc'[t] # "sv_send") =>
              /\ parameters' = parameters
              /\ \/ /\ pc'[t] = "sv_set"
                    /\ loc'[t].sent =
                         <<[addr |-> <<Prefix, arg[t].name>>,
                            args |-> <<WireArg(arg[t].label, arg[t].value)>>]>>
                 \/ /\ pc'[t] = "idle" /\ ret'[t].val = "Err_send"
                    /\ ret'[t].sent = <<>>
         /\ (pc[t] = "sv_set" /\ pc'[t] # "sv_set") =>
              /\ Len(loc[t].sent) = 1
              /\ \A m \in ParamNames \ {arg[t].name} : parameters'[m] = parameters[m]]_vars

\* A call with a valid label returned the error of its send: nothing went
\* out and the store still holds the parameter with its old value.
C16_Witness ==
    \E t \in Callers :
        /\ ret[t].op = "set_value" /\ ret[t].val = "Err_send"
        /\ ret[t].sent = <<>>
        /\ parameters[ret[t].input.name] # NoParam
        /\ parameters[ret[t].input.name].value # ret[t].input.value
(***************************************************************************)
(* The claims about inbound packets, checked under SpecInbound.            *)
(***************************************************************************)
\* A message that carries no parameter: another address, no argument, or a
\* first argument that is no float, int or bool.
Ignored(msg) ==
    \/ ~msg.prefixed
    \/ Len(msg.args) = 0
    \/ msg.args[1].type \notin {"Float", "Int", "Bool"}

\* The messages of a packet in their listed order, nested bundles in place.
RECURSIVE InOrder(_)
InOrder(packet) ==
    IF packet.kind = "message" THEN <<packet>>
    ELSE IF packet.content = <<>> THEN <<>>
    ELSE InOrder(Head(packet.content)) \o InOrder(Bundle(Tail(packet.content)))

\* The parameter a message that is not ignored carries.
Carried(msg) ==
    [kind |-> msg.args[1].type,
     value |-> (IF msg.args[1].type = "Bool" THEN (IF msg.args[1].v THEN Unit ELSE 0)
                ELSE IF msg.args[1].type = "Int" THEN Unit * msg.args[1].v
                ELSE msg.args[1].v),
     name |-> msg.name]

\* C18: an inbound message whose address does not start with the prefix, or
\* that has no arguments, or whose first argument is not float/int/bool,
\* produces no parameter, no store mutation and no notification, and the
\* listener keeps running: the worker goes on with the packet, and a packet
\* of such messages only ends with the worker back at its poll.
C18_IgnoredMessages ==
    [][\A w \in Workers :
         /\ (wk[w].pc = "process" /\ wk[w].queue # <<>> /\ wk'[w] # wk[w]
               /\ Ignored(Head(wk[w].queue))) =>
              /\ parameters' = parameters
              /\ emitted' = emitted
              /\ wk'[w] = [wk[w] EXCEPT !.queue = Tail(wk[w].queue)]
         /\ (wk[w].pc = "process" /\ wk[w].queue = <<>> /\ wk'[w] # wk[w]
               /\ \A i \in 1..Len(InOrder(wk[w].dgram)) : Ignored(InOrder(wk[w].dgram)[i])) =>
              /\ wk'[w].pc = "check"
              /\ parameters' = parameters
              /\ emitted' = emitted
              /\ running' = running]_vars

\* With the handle attached and the listener running, the worker has gone
\* through a bundle of three ignored messages: the store is empty, nothing
\* was emitted.
C18_Witness ==
    \E w \in Workers :
        /\ wk[w].pc = "process" /\ wk[w].queue = <<>>
        /\ wk[w].dgram = Bundle(<<OtherAddress, Bundle(<<>>), Bundle(<<NoArguments>>)>>)
        /\ app_handle /\ running
        /\ parameters = [n \in ParamNames |-> NoParam]
        /\ emitted = NoEmit

\* C19: the packets nested in a bundle are processed in their listed order,
\* nested bundles in place; every valid message is applied to the store
\* when it is reached, so the later message of a name wins; the result of
\* the bundle is the last valid message's parameter, none if there is none;
\* and the listener emits for a datagram once at most, when it is through.
C19_Bundles ==
    /\ [](\A w \in Workers :
            wk[w].pc = "process" =>
               LET all == InOrder(wk[w].dgram)
                   done == Len(all) - Len(wk[w].queue)
                   valid == {i \in 1..done : ~Ignored(all[i])}
               IN /\ done >= 0
                  /\ wk[w].queue = SubSeq(all, done + 1, Len(all))
                  /\ wk[w].updated = (valid # {})
                  /\ wk[w].last =
                       IF valid = {} THEN NoUpdate
                       ELSE Carried(all[CHOOSE i \in valid : \A k \in valid : k <= i]))
    /\ [][\A w \in Workers :
            /\ (wk[w].pc = "process" /\ wk[w].queue # <<>> /\ wk'[w] # wk[w]
                  /\ ~Ignored(Head(wk[w].queue))) =>
                 LET c == Carried(Head(wk[w].queue)) IN
                 /\ parameters'[c.name] = [kind |-> c.kind, value |-> c.value]
                 /\ \A n \in ParamNames \ {c.name} : parameters'[n] = parameters[n]
                 /\ emitted' = emitted
            /\ (wk'[w].pc = "snapshot" /\ wk[w].pc # "snapshot") =>
                 (wk[w].pc = "process" /\ wk[w].queue = <<>> /\ wk[w].updated)
            /\ (wk[w].pc = "snapshot" /\ wk'[w].pc # "snapshot") =>
                 (wk'[w].pc = "check" /\ emitted' = Snapshot(parameters))]_vars
    /\ [][(\A w \in Workers : ~(wk[w].pc = "snapshot" /\ wk'[w].pc = "check")) =>
            UNCHANGED emitted]_vars

\* The worker is through a bundle with a bundle nested between two
\* messages: the last valid message, the Float for "p" inside the nested
\* bundle, is the result and has overwritten the Int that came before it.
C19_Witness ==
    \E w \in Workers :
        /\ wk[w].pc = "snapshot"
        /\ wk[w].dgram = Bundle(<<BoolQ, Bundle(<<IntP, OtherAddress, FloatP>>), NoArguments>>)
        /\ wk[w].last = [kind |-> "Float", value |-> 15, name |-> "p"]
        /\ parameters = [n \in ParamNames |->
                           IF n = "p" THEN [kind |-> "Float", value |-> 15]
                           ELSE [kind |-> "Bool", value |-> Unit]]
(***************************************************************************)
(* The claim about the scope of the locks, checked under Spec.             *)
(***************************************************************************)
\* The locks of OscState the claim names.
StateLocks == {"params", "config", "running", "handle"}

\* C20: the locks are held for a single read or write only: no caller is
\* about to bind the socket or to join the worker, and no worker is about to
\* emit to the host, while it holds a lock on the parameter map, the config,
\* the running flag or the host handle.
C20_NoLockAcrossIO ==
    /\ \A t \in Callers :
         pc[t] \in {"sl_bind", "st_join"} =>
            \A l \in StateLocks : lk[l] # CallerId(t)
    /\ \A w \in Workers :
         wk[w].pc = "snapshot" =>
            \A l \in StateLocks : lk[l] # WorkerId(w)
(***************************************************************************)
(* The claim about concurrent saves, checked under SpecRegistry.           *)
(***************************************************************************)
\* Every call has returned.
Quiet == \A t \in Callers : pc[t] = "idle"

\* The call of caller t wrote the file and returned.
WroteAndReturned(t) == ret[t].op \in {"add", "remove"} /\ ret[t].val \in {"Ok", "true"}

\* C21: under any interleaving of add_command and remove_command calls whose
\* writes succeed, once every call has returned the document on disk equals
\* the registry in memory.  A save that succeeds leaves the file equal to
\* the registry whatever the other calls are doing, and only a later
\* mutation or a failed write makes them differ again.
C21_ConcurrentSavesPersist ==
    /\ [](Quiet /\ (\E t \in Callers : WroteAndReturned(t))
                /\ (\A t \in Callers : WroteAndReturned(t) \/ ret[t].op = "none")
             => Persisted)
    /\ [][\A t \in Callers :
            (Saving(t) /\ pc'[t] = "idle" /\ ret'[t].val \in {"Ok", "true"}) =>
               Persisted']_vars
    /\ [][(Persisted /\ ~Persisted') =>
            \E t \in Callers :
               \/ ~Saving(t) /\ Saving(t)'
               \/ Saving(t) /\ ret'[t].val = "Err_io"]_vars

\* Both threads have written and returned, one from an add and one from a
\* remove, after four calls: the file denotes the registry, which holds a
\* mapping.
C21_Witness ==
    /\ Quiet
    /\ calls = MaxCalls
    /\ \E t, u \in Callers :
         /\ ret[t].op = "add" /\ ret[t].val = "Ok"
         /\ ret[u].op = "remove" /\ ret[u].val = "true"
    /\ Persisted
    /\ \E l \in Languages : commands[l] # <<>>
(***************************************************************************)
(* The claim about a restart whose start fails, checked under Spec.        *)
(***************************************************************************)
\* The listen address of c cannot be parsed or is taken by another process:
\* a start_listener on it fails whatever this program holds.
StartMustFail(c) == ~Parseable(c.listen_address) \/ c.listen_port \in ExternalPorts

\* C22: when update_config changes the config while the listener is Running
\* and the start of the restart fails, the error is returned to the caller
\* with the new config stored and the listener Stopped.  Stated as: such a
\* call is never stuck in the stop of its restart, before the start that
\* is to return the error.
C22_FailedRestartReturns ==
    \A t \in Callers :
        (op[t] = "update_config" /\ StartMustFail(arg[t].config)) => ~JoinStuck(t)
====
